---- MODULE Spec2Model ----
(***************************************************************************)
(* Model of the inference engine of the chest X-ray diagnostics backend:   *)
(* backend/inference.py (ModelInference: the model cache, load_model,      *)
(* predict, clear_cache, get_available_models, check_compatibility) and    *)
(* backend/preprocessing.py (letterbox).                                   *)
(***************************************************************************)
EXTENDS Integers, Sequences, FiniteSets, TLC

VARIABLES
    loaded_models,  \* self.loaded_models: cache key -> model instance
    device,         \* self.device, fixed by the constructor
    timm_ok,        \* whether timm can create a MobileViT backbone in this installation
    dirs,           \* the config directories that exist under models_dir
    files,          \* the weight files that exist: path -> file content
    nextId,         \* number of model objects constructed so far (object identity)
    pc,             \* per caller: the place of its call in the code
    frame,          \* per caller: arguments and locals of its call
    outcome,        \* per caller: what the finished call returned or raised
    hist,           \* history of the current cache lifetime (not program state)
    cc_in, cc_out,  \* check_compatibility: arguments and returned value
    lb_in, lb_out   \* letterbox: arguments and computed geometry

vars == <<loaded_models, device, timm_ok, dirs, files, nextId, pc, frame, outcome, hist,
          cc_in, cc_out, lb_in, lb_out>>

engineVars == <<loaded_models, device, timm_ok, dirs, files, nextId, pc, frame, outcome, hist>>

(***************************************************************************)
(* Bounds of the model.                                                    *)
(***************************************************************************)
NumThreads == 2
MaxBuilds == 3
MaxTime == 2
MaxLabels == 7
MaxDim == 6
MaxFiles == 2

Threads == 1..NumThreads

None == "None"

Range(s) == {s[i] : i \in DOMAIN s}

Max(a, b) == IF a >= b THEN a ELSE b

Min(a, b) == IF a <= b THEN a ELSE b

EmptyMap == [k \in {} |-> None]

(***************************************************************************)
(* Static registries (inference.py 9-33).                                  *)
(***************************************************************************)
ConfigOrder == <<"config1", "config2", "config3", "config4">>

CONFIG_SETTINGS ==
    [c \in Range(ConfigOrder) |->
        CASE c = "config1" -> [image_size |-> 224, loss |-> "focal", type |-> "CNN"]
          [] c = "config2" -> [image_size |-> 320, loss |-> "focal", type |-> "CNN"]
          [] c = "config3" -> [image_size |-> 224, loss |-> "focal", type |-> "CNN-Transformer"]
          [] c = "config4" -> [image_size |-> 224, loss |-> "asymmetric",
                               type |-> "CNN+CNN-Transformer"]]

ModelOrder == <<"densenet121", "efficientnet-b2", "regnety-800mf",
                "efficientformerv2-s2", "mobilevit-s">>

MODEL_FILENAME_MAP == [m \in Range(ModelOrder) |-> m \o ".pth"]

MODEL_CONFIG_COMPATIBILITY ==
    [m \in Range(ModelOrder) |->
        CASE m = "densenet121" -> <<"config1", "config2", "config4">>
          [] m = "efficientnet-b2" -> <<"config1", "config2", "config4">>
          [] m = "regnety-800mf" -> <<"config1", "config2", "config4">>
          [] m = "efficientformerv2-s2" -> <<"config3", "config4">>
          [] m = "mobilevit-s" -> <<"config3", "config4">>]

\* ModelInference.__init__ defaults and app.DISEASES
num_classes == 6

models_dir == "models"

DISEASES == <<"Atelectasis", "Edema", "Lung_Opacity", "Pleural_Effusion",
              "Pneumonia", "Pneumothorax">>

(***************************************************************************)
(* check_compatibility (inference.py 73-76).                               *)
(***************************************************************************)
check_compatibility_any_known(model_name, config) ==
    model_name \in DOMAIN MODEL_CONFIG_COMPATIBILITY /\ config \in DOMAIN CONFIG_SETTINGS

check_compatibility(model_name, config) ==
    IF model_name \notin DOMAIN MODEL_CONFIG_COMPATIBILITY
    THEN FALSE
    ELSE config \in Range(MODEL_CONFIG_COMPATIBILITY[model_name])

(***************************************************************************)
(* letterbox (preprocessing.py 7-29).  The geometry only: the new size,    *)
(* the padding and the size of the padded image.                           *)
(***************************************************************************)
\* int(round(x)) for x = n / d computed in floating point as dim * (size / max):
\* the nearest integer; when n / d lies exactly half way between two integers
\* the double product may land on either side of the half, so both neighbours
\* are possible results.
RoundFloor(n, d) == {n \div d}

Round(n, d) ==
    LET q == n \div d
        r == n % d
    IN  IF 2 * r < d THEN {q}
        ELSE IF 2 * r > d THEN {q + 1}
        ELSE {q, q + 1}

\* top, bottom = pad // 2, pad - pad // 2
Split(pad) == <<pad \div 2, pad - (pad \div 2)>>

\* the results letterbox can produce for an h x w image and target size
letterbox(h, w, size) ==
    LET m == Max(h, w)
    IN  { [new_w |-> Max(1, rw), new_h |-> Max(1, rh),
           interp |-> IF size < m THEN "INTER_AREA" ELSE "INTER_CUBIC",
           top |-> Split(size - Max(1, rh))[1], bottom |-> Split(size - Max(1, rh))[2],
           left |-> Split(size - Max(1, rw))[1], right |-> Split(size - Max(1, rw))[2],
           out_h |-> Max(1, rh) + Split(size - Max(1, rh))[1] + Split(size - Max(1, rh))[2],
           out_w |-> Max(1, rw) + Split(size - Max(1, rw))[1] + Split(size - Max(1, rw))[2]]
          : rw \in Round(w * size, m), rh \in Round(h * size, m) }

(***************************************************************************)
(* Values of the engine model.                                             *)
(***************************************************************************)
\* an exception: its class and the parts of its message
Exc(type, text, arg, arg2, list) ==
    [type |-> type, text |-> text, arg |-> arg, arg2 |-> arg2, list |-> list]

NoExc == Exc(None, None, None, None, <<>>)

\* str(e)
Str(e) == [text |-> e.text, arg |-> e.arg, arg2 |-> e.arg2, list |-> e.list]

NoMsg == Str(NoExc)

\* f"{prefix}{str(e)}"
Prefixed(prefix, e) == [Str(e) EXCEPT !.text = prefix \o @]

NoParams == [arch |-> None, src |-> None]

NoModel == [id |-> 0, arch |-> None, img_size |-> 0, params |-> NoParams,
            device |-> None, training |-> FALSE]

NoResult == [success |-> FALSE, error |-> NoMsg, results |-> <<>>, processing_time |-> -1,
             model_name |-> None, config |-> None, image_size |-> -1, device |-> None]

\* an HTTP response of app.py: the status code and the body (for an
\* HTTPException the detail is the body's error)
Response(status, body) == [status |-> status, body |-> body]

NoResponse == Response(0, NoResult)

NoOutcome == [kind |-> "none", exc |-> NoExc, model |-> NoModel, result |-> NoResult,
              path |-> None, listing |-> EmptyMap, http |-> NoResponse]

Returned(field, v) ==
    CASE field = "model" -> [NoOutcome EXCEPT !.kind = "return", !.model = v]
      [] field = "result" -> [NoOutcome EXCEPT !.kind = "return", !.result = v]
      [] field = "path" -> [NoOutcome EXCEPT !.kind = "return", !.path = v]
      [] field = "listing" -> [NoOutcome EXCEPT !.kind = "return", !.listing = v]
      [] field = "none" -> [NoOutcome EXCEPT !.kind = "return"]

Raised(e) == [NoOutcome EXCEPT !.kind = "raise", !.exc = e]

NoFrame == [op |-> "none"]

\* locals of a load_model or predict call; the fields after `logits` record what
\* the call did (they are not program state)
NewFrame(op, model_name, config, cached, id, first) ==
    [op |-> op, model_name |-> model_name, config |-> config,
     start_time |-> 0, clock |-> 0, model_path |-> None, model |-> NoModel,
     checkpoint |-> None, image_tensor |-> <<>>, logits |-> <<>>,
     diseases |-> <<>>,
     cached_at_entry |-> cached, entry_id |-> id, first_attempt |-> first,
     entry_builds |-> nextId,
     exists_checks |-> 0, reads |-> 0,
     builds |-> 0, applies |-> 0, load_error |-> NoExc, load_end |-> -1]

\* of the current cache lifetime, per key: reads and builds count the torch.load
\* and get_model calls, returned holds the identities successful loads returned,
\* late_reads the keys read after a load of them had succeeded, attempted the
\* keys cached in an earlier lifetime that a load has since asked for;
\* ever_cached: the keys some clear_cache dropped
NewHist == [reads |-> EmptyMap, builds |-> EmptyMap, returned |-> EmptyMap,
            late_reads |-> {}, attempted |-> {}, ever_cached |-> {}]

Get(map, k, default) == IF k \in DOMAIN map THEN map[k] ELSE default

Put(map, k, v) == [x \in DOMAIN map \cup {k} |-> IF x = k THEN v ELSE map[x]]

\* how long a slow step takes on a clock that reads `clock`
Durations(clock) == IF clock < MaxTime THEN {0, 1} ELSE {0}

(***************************************************************************)
(* Filesystem under models_dir.  A weight file's content is the format of  *)
(* the pickled checkpoint and the architecture whose parameters it holds.  *)
(***************************************************************************)
model_path(config, filename) == models_dir \o "/" \o config \o "/" \o filename

Content(fmt, arch) == [fmt |-> fmt, arch |-> arch]

\* torch.load(model_path): the unpickled blob
torch_load(content) ==
    [isdict |-> content.fmt # "object",
     has_model_state_dict |-> content.fmt \in {"model_state_dict", "both"},
     has_state_dict |-> content.fmt \in {"state_dict", "both"},
     model_state_dict |-> [arch |-> content.arch, src |-> "model_state_dict"],
     state_dict |-> [arch |-> content.arch, src |-> "state_dict"],
     self |-> [arch |-> IF content.fmt = "direct" THEN content.arch ELSE None,
               src |-> "checkpoint"]]

(***************************************************************************)
(* load_model (inference.py 78-150) and get_model_path (54-71), by step.   *)
(***************************************************************************)
cache_key_model_only(model_name, config) == model_name

\* line 79
cache_key(model_name, config) == model_name \o "_" \o config

is_cached_never(cache, key) == FALSE

\* line 82
is_cached(cache, key) == key \in DOMAIN cache

\* line 147
cache_insert(cache, key, model) == Put(cache, key, model)

clear_keep(cache) == cache

\* line 246
clear(cache) == EmptyMap

\* lines 54-71; exists_checks counts the calls of model_path.exists()
get_model_path(model_name, config, fs) ==
    IF config \notin DOMAIN CONFIG_SETTINGS
    THEN [exc |-> Exc("ValueError", "Config not recognized", config, None, ConfigOrder),
          path |-> None, exists_checks |-> 0]
    ELSE IF model_name \notin DOMAIN MODEL_FILENAME_MAP
    THEN [exc |-> Exc("ValueError", "Model not recognized", model_name, None, ModelOrder),
          path |-> None, exists_checks |-> 0]
    ELSE LET p == model_path(config, MODEL_FILENAME_MAP[model_name])
         IN  IF p \notin DOMAIN fs
             THEN [exc |-> Exc("FileNotFoundError", "Model file not found", p, None, <<>>),
                   path |-> None, exists_checks |-> 1]
             ELSE [exc |-> NoExc, path |-> p, exists_checks |-> 1]

validate_ids_only(model_name, config) ==
    IF config \notin DOMAIN CONFIG_SETTINGS
    THEN Exc("ValueError", "Invalid config", config, None, ConfigOrder)
    ELSE IF model_name \notin DOMAIN MODEL_FILENAME_MAP
    THEN Exc("ValueError", "Invalid model", model_name, None, ModelOrder)
    ELSE NoExc

validate_model_first(model_name, config) ==
    IF model_name \notin DOMAIN MODEL_FILENAME_MAP
    THEN Exc("ValueError", "Invalid model", model_name, None, ModelOrder)
    ELSE IF config \notin DOMAIN CONFIG_SETTINGS
    THEN Exc("ValueError", "Invalid config", config, None, ConfigOrder)
    ELSE IF ~check_compatibility(model_name, config)
    THEN Exc("ValueError", "not compatible", model_name, config,
             Get(MODEL_CONFIG_COMPATIBILITY, model_name, <<>>))
    ELSE NoExc

\* lines 86-104: the exception the validation raises, or NoExc
validate(model_name, config) ==
    IF config \notin DOMAIN CONFIG_SETTINGS
    THEN Exc("ValueError", "Invalid config", config, None, ConfigOrder)
    ELSE IF model_name \notin DOMAIN MODEL_FILENAME_MAP
    THEN Exc("ValueError", "Invalid model", model_name, None, ModelOrder)
    ELSE IF ~check_compatibility(model_name, config)
    THEN Exc("ValueError", "not compatible", model_name, config,
             Get(MODEL_CONFIG_COMPATIBILITY, model_name, <<>>))
    ELSE NoExc

\* models.get_model (models.py 203-218): a new object in training mode with
\* freshly initialised parameters; only EfficientFormerV2 keeps img_size
get_model(model_name, img_size, id) ==
    [id |-> id, arch |-> model_name,
     img_size |-> IF model_name = "efficientformerv2-s2" THEN img_size ELSE 0,
     params |-> [arch |-> model_name, src |-> "init"],
     device |-> "cpu", training |-> TRUE]

\* MobileViTSMultiLabel raises RuntimeError when timm builds no variant
\* (models.py 153-157); the other constructors have no raise of their own
BuildOutcomes(model_name, timm) == IF model_name = "mobilevit-s" THEN {timm} ELSE {TRUE}

select_state_dict_first(checkpoint) ==
    IF checkpoint.isdict
    THEN IF checkpoint.has_state_dict THEN checkpoint.state_dict
         ELSE IF checkpoint.has_model_state_dict THEN checkpoint.model_state_dict
         ELSE checkpoint.self
    ELSE checkpoint.self

\* lines 126-140: the parameters handed to load_state_dict
select_state_dict(checkpoint) ==
    IF checkpoint.isdict
    THEN IF checkpoint.has_model_state_dict THEN checkpoint.model_state_dict
         ELSE IF checkpoint.has_state_dict THEN checkpoint.state_dict
         ELSE checkpoint.self
    ELSE checkpoint.self

\* model.load_state_dict(params) (strict): the exception it raises, or NoExc
load_state_dict(model, params, isdict) ==
    IF params.arch = model.arch THEN NoExc
    ELSE IF isdict
    THEN Exc("RuntimeError", "Error(s) in loading state_dict", model.arch, None, <<>>)
    ELSE Exc("TypeError", "Expected state_dict to be dict-like", model.arch, None, <<>>)

\* model.to(self.device) (line 143): the exception it raises, or NoExc; placing
\* a model on the accelerator can fail for want of memory
to_device(dev, placed) ==
    IF placed THEN NoExc
    ELSE Exc("RuntimeError", "CUDA out of memory", None, None, <<>>)

Placements(dev) == IF dev = "cuda" THEN {TRUE, FALSE} ELSE {TRUE}

after_load_inserts_first(cache, key, model, e) == cache_insert(cache, key, model)

\* lines 125-147: the cache after the load; the insert of line 147 is reached
\* only when nothing before it raised
after_load(cache, key, model, e) ==
    IF e = NoExc THEN cache_insert(cache, key, model) ELSE cache

\* lines 128-144: the model with the parameters applied, on the device, in eval mode
finish_load(model, params, dev) ==
    [model EXCEPT !.params = params, !.device = dev, !.training = FALSE]

(***************************************************************************)
(* predict (inference.py 152-243): outcome construction.                   *)
(***************************************************************************)
\* line 165: except (ValueError, FileNotFoundError)
Caught == {"ValueError", "FileNotFoundError"}

Failure(msg, processing_time, model_name, config, image_size, dev) ==
    [success |-> FALSE, error |-> msg, results |-> <<>>,
     processing_time |-> processing_time, model_name |-> model_name,
     config |-> config, image_size |-> image_size, device |-> dev]

\* lines 166-175
load_failure(e, f, dev) ==
    Failure(Str(e), 0, f.model_name, f.config,
            IF f.config \in DOMAIN CONFIG_SETTINGS
            THEN CONFIG_SETTINGS[f.config].image_size ELSE 0, dev)

\* torch.sigmoid on the logits the model can produce here, in thousandths
Sigmoid(x) == CASE x = -1 -> 269 [] x = 0 -> 500 [] x = 1 -> 731

\* one forward pass's logits, shape [1, num_classes]; v picks among outputs
Logits(v) == [i \in 1..num_classes |-> ((i + v) % 3) - 1]

zip_pad(diseases, probs) ==
    [i \in 1..Len(diseases) |->
        [disease |-> diseases[i], prob |-> IF i <= Len(probs) THEN probs[i] ELSE 0]]

\* lines 225-230: zip(diseases, probs)
zip(diseases, probs) ==
    [i \in 1..Min(Len(diseases), Len(probs)) |-> [disease |-> diseases[i], prob |-> probs[i]]]

\* the label list a caller supplies: the first n labels (app.DISEASES, then more)
Labels(n) == [i \in 1..n |-> IF i <= Len(DISEASES) THEN DISEASES[i] ELSE "Finding" ]

\* preprocess_image / preprocess_image_from_bytes (preprocessing.py 32-107):
\* the exception raised, or NoExc
preprocess_exc(image) ==
    IF ~image.decodable
    THEN IF image.source = "path"
         THEN Exc("FileNotFoundError", "Cannot read image", "image_path", None, <<>>)
         ELSE Exc("ValueError", "Cannot decode image from bytes", None, None, <<>>)
    ELSE IF image.channels \notin {1, 3}
    THEN Exc("ValueError", "Image must be HxW or HxWx3", None, None, <<>>)
    ELSE NoExc

Image(source, decodable, channels, h, w) ==
    [source |-> source, decodable |-> decodable, channels |-> channels, h |-> h, w |-> w]

(***************************************************************************)
(* Steps of a call.  A caller t is idle, inside a call, or at "done" with  *)
(* the call's outcome, which Return hands back.                            *)
(***************************************************************************)
Key(f) == cache_key(f.model_name, f.config)

\* the frames that run predict: a direct call, or the call of the /predict
\* handler (app.py 190-195)
PredictOps == {"predict", "http_predict"}

Bump(map, k) == Put(map, k, Get(map, k, 0) + 1)

\* load_model raises e: a load_model caller gets the exception; inside predict
\* lines 165-175 turn the caught classes into a Failure and let the others go
LoadRaise(t, e, f) ==
    /\ pc' = [pc EXCEPT ![t] = "done"]
    /\ frame' = [frame EXCEPT ![t] = [f EXCEPT !.load_error = e]]
    /\ outcome' = [outcome EXCEPT ![t] =
            IF f.op \in PredictOps /\ e.type \in Caught
            THEN Returned("result", load_failure(e, f, device))
            ELSE Raised(e)]

\* load_model returns model: to its caller, or into predict at line 177
LoadReturn(t, model, f) ==
    /\ frame' = [frame EXCEPT ![t] = [f EXCEPT !.model = model, !.load_end = f.clock]]
    /\ IF f.op \in PredictOps
       THEN pc' = [pc EXCEPT ![t] = "preprocess"] /\ UNCHANGED outcome
       ELSE /\ pc' = [pc EXCEPT ![t] = "done"]
            /\ outcome' = [outcome EXCEPT ![t] = Returned("model", model)]

NoteReturn(h, key, model) ==
    [h EXCEPT !.returned = Put(@, key, Get(@, key, {}) \cup {model.id})]

\* entry of load_model (lines 79-104), for predict after line 160: the cache
\* test of line 82, and on a miss the validation, which reads no shared state
Enter(t, op, model_name, config) ==
    LET key == cache_key(model_name, config)
        f == NewFrame(op, model_name, config, key \in DOMAIN loaded_models,
                      Get(loaded_models, key, NoModel).id, key \notin hist.attempted)
    IN  /\ pc[t] = (IF op = "http_predict" THEN "http_call" ELSE "idle")
        /\ IF is_cached(loaded_models, key)
           THEN /\ pc' = [pc EXCEPT ![t] = "fetch"]
                /\ frame' = [frame EXCEPT ![t] = f]
                /\ UNCHANGED outcome
           ELSE IF validate(model_name, config) # NoExc
           THEN LoadRaise(t, validate(model_name, config), f)
           ELSE /\ pc' = [pc EXCEPT ![t] = "path"]
                /\ frame' = [frame EXCEPT ![t] = f]
                /\ UNCHANGED outcome
        /\ hist' = [hist EXCEPT !.attempted = @ \cup ({key} \cap hist.ever_cached)]
        /\ UNCHANGED <<loaded_models, device, timm_ok, dirs, files, nextId>>

CallLoadModel(t, Ms, Cs) ==
    /\ \E m \in Ms, c \in Cs : Enter(t, "load_model", m, c)
    /\ UNCHANGED <<cc_in, cc_out, lb_in, lb_out>>

CallPredict(t, Ms, Cs) ==
    /\ \E m \in Ms, c \in Cs : Enter(t, "predict", m, c)
    /\ UNCHANGED <<cc_in, cc_out, lb_in, lb_out>>

\* line 84: return self.loaded_models[cache_key]
LoadFetch(t) ==
    /\ pc[t] = "fetch"
    /\ IF Key(frame[t]) \in DOMAIN loaded_models
       THEN /\ LoadReturn(t, loaded_models[Key(frame[t])], frame[t])
            /\ hist' = NoteReturn(hist, Key(frame[t]), loaded_models[Key(frame[t])])
       ELSE /\ LoadRaise(t, Exc("KeyError", Key(frame[t]), None, None, <<>>), frame[t])
            /\ UNCHANGED hist
    /\ UNCHANGED <<loaded_models, device, timm_ok, dirs, files, nextId, cc_in, cc_out, lb_in, lb_out>>

\* line 109: get_model_path
LoadPath(t) ==
    /\ pc[t] = "path"
    /\ LET r == get_model_path(frame[t].model_name, frame[t].config, files)
           f == [frame[t] EXCEPT !.exists_checks = @ + r.exists_checks,
                                 !.model_path = r.path]
       IN  IF r.exc # NoExc
           THEN LoadRaise(t, r.exc, f)
           ELSE /\ pc' = [pc EXCEPT ![t] = "build"]
                /\ frame' = [frame EXCEPT ![t] = f]
                /\ UNCHANGED outcome
    /\ UNCHANGED <<loaded_models, device, timm_ok, dirs, files, nextId, hist,
                   cc_in, cc_out, lb_in, lb_out>>

\* lines 112-120: get_model
LoadBuild(t) ==
    /\ pc[t] = "build"
    /\ nextId < MaxBuilds
    /\ \E built \in BuildOutcomes(frame[t].model_name, timm_ok) :
        IF built
        THEN /\ nextId' = nextId + 1
             /\ frame' = [frame EXCEPT ![t] =
                    [@ EXCEPT !.builds = @ + 1,
                              !.model = get_model(frame[t].model_name,
                                            CONFIG_SETTINGS[frame[t].config].image_size,
                                            nextId + 1)]]
             /\ hist' = [hist EXCEPT !.builds = Bump(@, Key(frame[t]))]
             /\ pc' = [pc EXCEPT ![t] = "read"]
             /\ UNCHANGED outcome
        ELSE /\ LoadRaise(t, Exc("RuntimeError", "Could not load any MobileViT variant",
                                 None, None, <<>>), frame[t])
             /\ UNCHANGED <<nextId, hist>>
    /\ UNCHANGED <<loaded_models, device, timm_ok, dirs, files, cc_in, cc_out, lb_in, lb_out>>

\* line 123: torch.load reads the weight file
LoadRead(t) ==
    /\ pc[t] = "read"
    /\ \E d \in Durations(frame[t].clock) :
        LET p == frame[t].model_path
            f == [frame[t] EXCEPT !.clock = @ + d]
        IN  IF p \notin DOMAIN files
            THEN /\ LoadRaise(t, Exc("FileNotFoundError", "No such file or directory",
                                     p, None, <<>>), f)
                 /\ UNCHANGED hist
            ELSE /\ hist' = [hist EXCEPT !.reads = Bump(@, Key(f)),
                                         !.late_reads = IF Key(f) \in DOMAIN hist.returned
                                                        THEN @ \cup {Key(f)} ELSE @]
                 /\ IF files[p].fmt = "corrupt"
                    THEN LoadRaise(t, Exc("UnpicklingError", "invalid load key",
                                          None, None, <<>>), [f EXCEPT !.reads = @ + 1])
                    ELSE /\ pc' = [pc EXCEPT ![t] = "apply"]
                         /\ frame' = [frame EXCEPT ![t] =
                                [f EXCEPT !.reads = @ + 1, !.checkpoint = files[p]]]
                         /\ UNCHANGED outcome
    /\ UNCHANGED <<loaded_models, device, timm_ok, dirs, files, nextId, cc_in, cc_out, lb_in, lb_out>>

\* lines 125-150: load_state_dict, to(device), eval(), the cache insert, return
LoadApply(t) ==
    /\ pc[t] = "apply"
    /\ \E placed \in Placements(device) :
       LET f == [frame[t] EXCEPT !.applies = @ + 1]
           checkpoint == torch_load(f.checkpoint)
           params == select_state_dict(checkpoint)
           applied == load_state_dict(f.model, params, checkpoint.isdict)
           e == IF applied # NoExc THEN applied ELSE to_device(device, placed)
           model == finish_load(f.model, params, device)
       IN  /\ loaded_models' = after_load(loaded_models, Key(f), model, e)
           /\ IF e # NoExc
              THEN LoadRaise(t, e, f) /\ UNCHANGED hist
              ELSE /\ hist' = NoteReturn(hist, Key(f), model)
                   /\ LoadReturn(t, model, f)
    /\ UNCHANGED <<device, timm_ok, dirs, files, nextId, cc_in, cc_out, lb_in, lb_out>>

\* lines 177-197: preprocessing of the image the caller supplied
PredPreprocess(t, Images) ==
    /\ pc[t] = "preprocess"
    /\ \E image \in Images, d \in Durations(frame[t].clock) :
        LET img_size == CONFIG_SETTINGS[frame[t].config].image_size
            f == [frame[t] EXCEPT !.clock = @ + d]
            e == preprocess_exc(image)
        IN  IF e # NoExc
            THEN /\ pc' = [pc EXCEPT ![t] = "done"]
                 /\ frame' = [frame EXCEPT ![t] = f]
                 /\ outcome' = [outcome EXCEPT ![t] = Returned("result",
                        Failure(Prefixed("Image preprocessing failed: ", e),
                                f.clock - f.start_time, f.model_name, f.config,
                                img_size, device))]
            ELSE \E g \in letterbox(image.h, image.w, img_size) :
                 /\ pc' = [pc EXCEPT ![t] = "forward"]
                 /\ frame' = [frame EXCEPT ![t] =
                        [f EXCEPT !.image_tensor = <<1, 3, g.out_h, g.out_w>>]]
                 /\ UNCHANGED outcome
    /\ UNCHANGED <<loaded_models, device, timm_ok, dirs, files, nextId, hist,
                   cc_in, cc_out, lb_in, lb_out>>

\* lines 199-219: the forward pass
PredForward(t, Variants) ==
    /\ pc[t] = "forward"
    /\ \E d \in Durations(frame[t].clock), ok \in BOOLEAN, v \in Variants :
        LET f == [frame[t] EXCEPT !.clock = @ + d]
        IN  IF ~ok
            THEN /\ v = 0
                 /\ pc' = [pc EXCEPT ![t] = "done"]
                 /\ frame' = [frame EXCEPT ![t] = f]
                 /\ outcome' = [outcome EXCEPT ![t] = Returned("result",
                        Failure(Prefixed("Model inference failed: ",
                                    Exc("RuntimeError", "forward", None, None, <<>>)),
                                f.clock - f.start_time, f.model_name, f.config,
                                CONFIG_SETTINGS[f.config].image_size, device))]
            ELSE /\ pc' = [pc EXCEPT ![t] = "results"]
                 /\ frame' = [frame EXCEPT ![t] =
                        [f EXCEPT !.logits = Logits(v), !.image_tensor = <<>>]]
                 /\ UNCHANGED outcome
    /\ UNCHANGED <<loaded_models, device, timm_ok, dirs, files, nextId, hist,
                   cc_in, cc_out, lb_in, lb_out>>

\* lines 221-243: probabilities zipped with the caller's label list
PredResults(t, Lens) ==
    /\ pc[t] = "results"
    /\ \E n \in Lens :
        LET f == [frame[t] EXCEPT !.diseases = Labels(n)]
            probs == [i \in DOMAIN f.logits |-> Sigmoid(f.logits[i])]
        IN  /\ pc' = [pc EXCEPT ![t] = "done"]
            /\ frame' = [frame EXCEPT ![t] = f]
            /\ outcome' = [outcome EXCEPT ![t] = Returned("result",
                    [success |-> TRUE, error |-> NoMsg, results |-> zip(f.diseases, probs),
                     processing_time |-> f.clock - f.start_time,
                     model_name |-> f.model_name, config |-> f.config,
                     image_size |-> CONFIG_SETTINGS[f.config].image_size,
                     device |-> device])]
    /\ UNCHANGED <<loaded_models, device, timm_ok, dirs, files, nextId, hist,
                   cc_in, cc_out, lb_in, lb_out>>

\* clear_cache (lines 245-249)
ClearCache(t) ==
    /\ pc[t] = "idle"
    /\ loaded_models' = clear(loaded_models)
    /\ hist' = [NewHist EXCEPT !.ever_cached = hist.ever_cached \cup DOMAIN loaded_models]
    /\ pc' = [pc EXCEPT ![t] = "done"]
    /\ frame' = [frame EXCEPT ![t] = [op |-> "clear_cache"]]
    /\ outcome' = [outcome EXCEPT ![t] = Returned("none", None)]
    /\ UNCHANGED <<device, timm_ok, dirs, files, nextId, cc_in, cc_out, lb_in, lb_out>>

\* the caller takes the outcome
Return(t) ==
    /\ pc[t] = "done"
    /\ frame[t].op = "http_predict" => outcome[t].http # NoResponse
    /\ pc' = [pc EXCEPT ![t] = "idle"]
    /\ frame' = [frame EXCEPT ![t] = NoFrame]
    /\ outcome' = [outcome EXCEPT ![t] = NoOutcome]
    /\ UNCHANGED <<loaded_models, device, timm_ok, dirs, files, nextId, hist,
                   cc_in, cc_out, lb_in, lb_out>>

(***************************************************************************)
(* The /predict handler (app.py 149-215).                                  *)
(***************************************************************************)
\* lines 156-184: the HTTPException the handler raises before it reads the
\* upload, or NoResponse
http_validate(model, config, is_image) ==
    IF config \notin DOMAIN CONFIG_SETTINGS
    THEN Response(400, [NoResult EXCEPT !.error =
            [text |-> "Invalid config. Must be one of: ", arg |-> None, arg2 |-> None,
             list |-> ConfigOrder]])
    ELSE IF model \notin DOMAIN MODEL_FILENAME_MAP
    THEN Response(400, [NoResult EXCEPT !.error =
            [text |-> "Invalid model. Must be one of: ", arg |-> None, arg2 |-> None,
             list |-> ModelOrder]])
    ELSE IF ~check_compatibility(model, config)
    THEN Response(400, [NoResult EXCEPT !.error =
            [text |-> "not compatible", arg |-> model, arg2 |-> config,
             list |-> Get(MODEL_CONFIG_COMPATIBILITY, model, <<>>)]])
    ELSE IF ~is_image
    THEN Response(400, [NoResult EXCEPT !.error =
            [text |-> "File must be an image (PNG, JPG, JPEG)", arg |-> None,
             arg2 |-> None, list |-> <<>>]])
    ELSE NoResponse

\* lines 198-215: PredictionResponse(**result) for whatever dict predict
\* returned; the 500 body for an exception that came out of predict
http_respond(o, model, config) ==
    IF o.kind = "raise"
    THEN Response(500, [success |-> FALSE,
                        error |-> Prefixed("Internal server error: ", o.exc),
                        results |-> <<>>, processing_time |-> 0,
                        model_name |-> model, config |-> config,
                        image_size |-> IF config \in DOMAIN CONFIG_SETTINGS
                                       THEN CONFIG_SETTINGS[config].image_size ELSE 0,
                        device |-> "unknown"])
    ELSE Response(200, o.result)

\* lines 155-187: the validations, then the upload is read
HttpPredict(t, Ms, Cs, Types) ==
    /\ pc[t] = "idle"
    /\ \E m \in Ms, c \in Cs, is_image \in Types :
        /\ frame' = [frame EXCEPT ![t] =
                [op |-> "http_predict", model_name |-> m, config |-> c]]
        /\ IF http_validate(m, c, is_image) # NoResponse
           THEN /\ pc' = [pc EXCEPT ![t] = "done"]
                /\ outcome' = [outcome EXCEPT ![t] =
                        [NoOutcome EXCEPT !.http = http_validate(m, c, is_image)]]
           ELSE /\ pc' = [pc EXCEPT ![t] = "http_call"]
                /\ UNCHANGED outcome
    /\ UNCHANGED <<loaded_models, device, timm_ok, dirs, files, nextId, hist,
                   cc_in, cc_out, lb_in, lb_out>>

\* lines 190-195: engine.predict(image_bytes, model, config, DISEASES)
HttpCallEngine(t) ==
    /\ Enter(t, "http_predict", frame[t].model_name, frame[t].config)
    /\ UNCHANGED <<cc_in, cc_out, lb_in, lb_out>>

\* lines 198-215: the response to what engine.predict gave
HttpRespond(t) ==
    /\ pc[t] = "done"
    /\ frame[t].op = "http_predict"
    /\ outcome[t].http = NoResponse
    /\ outcome' = [outcome EXCEPT ![t] =
            [@ EXCEPT !.http = http_respond(outcome[t], frame[t].model_name,
                                           frame[t].config)]]
    /\ UNCHANGED <<loaded_models, device, timm_ok, dirs, files, nextId, hist,
                   pc, frame, cc_in, cc_out, lb_in, lb_out>>

(***************************************************************************)
(* get_available_models (inference.py 251-278) and get_model_path as calls.*)
(***************************************************************************)
get_available_models_all_configs(ds, fs) ==
    [c \in DOMAIN CONFIG_SETTINGS |->
        [image_size |-> CONFIG_SETTINGS[c].image_size, loss |-> CONFIG_SETTINGS[c].loss,
         type |-> CONFIG_SETTINGS[c].type, models |-> <<>>]]

get_available_models(ds, fs) ==
    [c \in {x \in DOMAIN CONFIG_SETTINGS : x \in ds} |->
        LET present == SelectSeq(ModelOrder,
                LAMBDA m : model_path(c, MODEL_FILENAME_MAP[m]) \in DOMAIN fs)
        IN  [image_size |-> CONFIG_SETTINGS[c].image_size,
             loss |-> CONFIG_SETTINGS[c].loss,
             type |-> CONFIG_SETTINGS[c].type,
             models |-> [i \in 1..Len(present) |->
                 [name |-> present[i],
                  filename |-> MODEL_FILENAME_MAP[present[i]],
                  compatible |-> check_compatibility(present[i], c),
                  path |-> model_path(c, MODEL_FILENAME_MAP[present[i]])]]]]

GetAvailableModels(t) ==
    /\ pc[t] = "idle"
    /\ pc' = [pc EXCEPT ![t] = "done"]
    /\ frame' = [frame EXCEPT ![t] = [op |-> "get_available_models",
                                      before |-> <<loaded_models, dirs, files>>]]
    /\ outcome' = [outcome EXCEPT ![t] = Returned("listing", get_available_models(dirs, files))]
    /\ UNCHANGED <<loaded_models, device, timm_ok, dirs, files, nextId, hist,
                   cc_in, cc_out, lb_in, lb_out>>

CallGetModelPath(t, Ms, Cs) ==
    /\ pc[t] = "idle"
    /\ \E m \in Ms, c \in Cs :
        LET r == get_model_path(m, c, files)
        IN  /\ frame' = [frame EXCEPT ![t] =
                    [op |-> "get_model_path", model_name |-> m, config |-> c,
                     exists_checks |-> r.exists_checks]]
            /\ outcome' = [outcome EXCEPT ![t] =
                    IF r.exc # NoExc THEN Raised(r.exc) ELSE Returned("path", r.path)]
    /\ pc' = [pc EXCEPT ![t] = "done"]
    /\ UNCHANGED <<loaded_models, device, timm_ok, dirs, files, nextId, hist,
                   cc_in, cc_out, lb_in, lb_out>>

(***************************************************************************)
(* The environment: weight files are written and removed while the engine  *)
(* runs.                                                                   *)
(***************************************************************************)
PathOf(pair) == model_path(pair[2], MODEL_FILENAME_MAP[pair[1]])

WriteFile(Pairs, Contents) ==
    /\ \E pair \in Pairs, content \in Contents :
        /\ pair[2] \in dirs
        /\ IF PathOf(pair) \in DOMAIN files THEN files[PathOf(pair)] # content ELSE TRUE
        /\ files' = Put(files, PathOf(pair), content)
    /\ UNCHANGED <<loaded_models, device, timm_ok, dirs, nextId, pc, frame, outcome, hist,
                   cc_in, cc_out, lb_in, lb_out>>

RemoveFile(Pairs) ==
    /\ \E pair \in Pairs :
        /\ PathOf(pair) \in DOMAIN files
        /\ files' = [x \in DOMAIN files \ {PathOf(pair)} |-> files[x]]
    /\ UNCHANGED <<loaded_models, device, timm_ok, dirs, nextId, pc, frame, outcome, hist,
                   cc_in, cc_out, lb_in, lb_out>>

(***************************************************************************)
(* Inputs of the specifications.                                           *)
(***************************************************************************)
AllModels == Range(ModelOrder) \cup {"resnet50"}

AllConfigs == Range(ConfigOrder) \cup {"config9"}

SeqModels == {"densenet121", "mobilevit-s", "resnet50"}

SeqConfigs == {"config1", "config3", "config9"}

\* the weight files the environment writes and removes
EnvPairs == {<<"densenet121", "config1">>}

\* a state dict of the file's architecture, one of another architecture, and
\* a file that does not unpickle
EnvContents == {Content("direct", "densenet121"), Content("direct", "mobilevit-s"),
                Content("corrupt", None)}

SeqImages == {Image("bytes", TRUE, 1, 2, 3), Image("bytes", TRUE, 3, 3, 2),
              Image("bytes", TRUE, 4, 2, 3), Image("bytes", FALSE, 0, 0, 0),
              Image("path", TRUE, 3, 2, 3), Image("path", FALSE, 0, 0, 0)}

ConcImages == {Image("bytes", TRUE, 3, 3, 2), Image("bytes", FALSE, 0, 0, 0)}

Devices == {"cpu", "cuda"}

\* nothing returned yet
NoAnswer == [kind |-> "none", value |-> FALSE]

NoGeometry == [new_w |-> 0, new_h |-> 0, interp |-> None, top |-> 0, bottom |-> 0,
               left |-> 0, right |-> 0, out_h |-> 0, out_w |-> 0]

PureIdle ==
    /\ cc_in = <<None, None>> /\ cc_out = NoAnswer
    /\ lb_in = <<0, 0, 0>> /\ lb_out = NoGeometry

EngineIdle ==
    /\ loaded_models = EmptyMap
    /\ nextId = 0
    /\ pc = [t \in Threads |-> "idle"]
    /\ frame = [t \in Threads |-> NoFrame]
    /\ outcome = [t \in Threads |-> NoOutcome]
    /\ hist = NewHist

(***************************************************************************)
(* SeqSpec: one caller, call after call, while the environment changes the *)
(* weight files.                                                           *)
(***************************************************************************)
SeqInit ==
    /\ EngineIdle /\ PureIdle
    /\ device \in Devices
    /\ timm_ok \in BOOLEAN
    /\ dirs = {"config1", "config3"}
    /\ files = Put(EmptyMap, PathOf(<<"mobilevit-s", "config3">>),
                   Content("direct", "mobilevit-s"))

SeqNext ==
    \/ CallLoadModel(1, SeqModels, SeqConfigs)
    \/ CallPredict(1, SeqModels, SeqConfigs)
    \/ LoadFetch(1)
    \/ LoadPath(1)
    \/ LoadBuild(1)
    \/ LoadRead(1)
    \/ LoadApply(1)
    \/ PredPreprocess(1, SeqImages)
    \/ PredForward(1, 0..1)
    \/ PredResults(1, 0..MaxLabels)
    \/ ClearCache(1)
    \/ GetAvailableModels(1)
    \/ Return(1)
    \/ WriteFile(EnvPairs, EnvContents)
    \/ RemoveFile(EnvPairs)

SeqSpec == SeqInit /\ [][SeqNext]_vars

(***************************************************************************)
(* Spec: callers on several threads share one engine; the weight file of   *)
(* the one pair they ask for is in place.                                  *)
(***************************************************************************)
ConcModels == {"densenet121"}

ConcConfigs == {"config1"}

Init ==
    /\ EngineIdle /\ PureIdle
    /\ device = "cpu"
    /\ timm_ok = TRUE
    /\ dirs = {"config1"}
    /\ files = Put(EmptyMap, PathOf(<<"densenet121", "config1">>),
                   Content("direct", "densenet121"))

Next ==
    \E t \in Threads :
        \/ CallLoadModel(t, ConcModels, ConcConfigs)
        \/ CallPredict(t, ConcModels, ConcConfigs)
        \/ LoadFetch(t)
        \/ LoadPath(t)
        \/ LoadBuild(t)
        \/ LoadRead(t)
        \/ LoadApply(t)
        \/ PredPreprocess(t, ConcImages)
        \/ PredForward(t, {0})
        \/ PredResults(t, {num_classes})
        \/ ClearCache(t)
        \/ Return(t)

Spec == Init /\ [][Next]_vars

(***************************************************************************)
(* ValSpec: one caller asks load_model and get_model_path for every pair   *)
(* of a known or unknown model id and config id; the weight files stay as  *)
(* they are.                                                               *)
(***************************************************************************)
ValFiles == {<<"densenet121", "config1">>, <<"densenet121", "config3">>,
             <<"efficientformerv2-s2", "config4">>}

ValInit ==
    /\ EngineIdle /\ PureIdle
    /\ device \in Devices
    /\ timm_ok \in BOOLEAN
    /\ dirs = {pair[2] : pair \in ValFiles}
    /\ files = [p \in {PathOf(pair) : pair \in ValFiles} |->
                    Content("direct", CHOOSE m \in Range(ModelOrder) :
                        \E c \in Range(ConfigOrder) : PathOf(<<m, c>>) = p)]

ValNext ==
    \/ CallLoadModel(1, AllModels, AllConfigs)
    \/ CallGetModelPath(1, AllModels, AllConfigs)
    \/ LoadFetch(1)
    \/ LoadPath(1)
    \/ LoadBuild(1)
    \/ LoadRead(1)
    \/ LoadApply(1)
    \/ ClearCache(1)
    \/ GetAvailableModels(1)
    \/ Return(1)

ValSpec == ValInit /\ [][ValNext]_vars

(***************************************************************************)
(* ListSpec: get_available_models over the layouts of models_dir with any  *)
(* set of config directories and up to MaxFiles weight files in them.      *)
(***************************************************************************)
AllPairs == {<<m, c>> : m \in Range(ModelOrder), c \in Range(ConfigOrder)}

RECURSIVE SetsUpTo(_, _)
SetsUpTo(S, n) ==
    IF n = 0 THEN {{}}
    ELSE LET prev == SetsUpTo(S, n - 1) IN prev \cup {T \cup {x} : T \in prev, x \in S}

CachedOne ==
    Put(EmptyMap, cache_key("densenet121", "config1"),
        finish_load(get_model("densenet121", 224, 1),
                    [arch |-> "densenet121", src |-> "checkpoint"], "cpu"))

ListInit ==
    /\ PureIdle
    /\ device = "cpu"
    /\ timm_ok = TRUE
    /\ pc = [t \in Threads |-> "idle"]
    /\ frame = [t \in Threads |-> NoFrame]
    /\ outcome = [t \in Threads |-> NoOutcome]
    /\ hist = NewHist
    /\ \E cached \in BOOLEAN :
        /\ loaded_models = IF cached THEN CachedOne ELSE EmptyMap
        /\ nextId = IF cached THEN 1 ELSE 0
    /\ dirs \in SUBSET Range(ConfigOrder)
    /\ \E present \in SetsUpTo({pair \in AllPairs : pair[2] \in dirs}, MaxFiles) :
        files = [p \in {PathOf(pair) : pair \in present} |->
                    Content("direct", (CHOOSE pair \in present : PathOf(pair) = p)[1])]

ListNext ==
    \/ GetAvailableModels(1)
    \/ Return(1)

ListSpec == ListInit /\ [][ListNext]_vars

(***************************************************************************)
(* CompatSpec and LetterboxSpec: the two pure functions on bounded inputs. *)
(***************************************************************************)
CompatModels == AllModels \cup {"", "config1", "DenseNet121"}

CompatConfigs == AllConfigs \cup {"", "densenet121", "Config1"}

EngineOff ==
    /\ EngineIdle
    /\ device = "cpu"
    /\ timm_ok = TRUE
    /\ dirs = {}
    /\ files = EmptyMap

CompatInit ==
    /\ EngineOff
    /\ cc_in \in CompatModels \X CompatConfigs
    /\ cc_out = NoAnswer
    /\ lb_in = <<0, 0, 0>> /\ lb_out = NoGeometry

CheckCompatibility ==
    /\ cc_out = NoAnswer
    /\ cc_out' = [kind |-> "return", value |-> check_compatibility(cc_in[1], cc_in[2])]
    /\ UNCHANGED <<engineVars, cc_in, lb_in, lb_out>>

CompatNext == CheckCompatibility

CompatSpec == CompatInit /\ [][CompatNext]_vars

\* the image of the documented scenario: 384 rows, 512 columns, target 224
Scenario == <<384, 512, 224>>

LetterboxInit ==
    /\ EngineOff
    /\ cc_in = <<None, None>> /\ cc_out = NoAnswer
    /\ lb_in \in ((1..MaxDim) \X (1..MaxDim) \X (1..MaxDim)) \cup {Scenario}
    /\ lb_out = NoGeometry

Letterbox ==
    /\ lb_out = NoGeometry
    /\ lb_out' \in letterbox(lb_in[1], lb_in[2], lb_in[3])
    /\ UNCHANGED <<engineVars, cc_in, lb_in, cc_out>>

LetterboxNext == Letterbox

LetterboxSpec == LetterboxInit /\ [][LetterboxNext]_vars

(***************************************************************************)
(* ClearSpec: caller 1 clears the cache again and again while caller 2    *)
(* runs predict for one pair whose weight file is in place.                *)
(***************************************************************************)
ClearNext ==
    \/ ClearCache(1)
    \/ Return(1)
    \/ \E t \in {2} :
        \/ CallPredict(t, ConcModels, ConcConfigs)
        \/ LoadFetch(t)
        \/ LoadPath(t)
        \/ LoadBuild(t)
        \/ LoadRead(t)
        \/ LoadApply(t)
        \/ PredPreprocess(t, ConcImages)
        \/ PredForward(t, {0})
        \/ PredResults(t, {num_classes})
        \/ Return(t)

ClearSpec == Init /\ [][ClearNext]_vars

(***************************************************************************)
(* FormatSpec: one caller loads a pair whose weight file is rewritten in    *)
(* every checkpoint format between the loads.                              *)
(***************************************************************************)
\* a bare state dict, a wrapper with "model_state_dict", with "state_dict", with
\* both, an object that is no dict, and a file that does not unpickle
Formats == {"direct", "model_state_dict", "state_dict", "both", "object", "corrupt"}

FormatContents ==
    {Content(fmt, arch) : fmt \in Formats \ {"corrupt"}, arch \in {"densenet121", "mobilevit-s"}}
        \cup {Content("corrupt", None)}

FormatInit ==
    /\ EngineIdle /\ PureIdle
    /\ device \in Devices
    /\ timm_ok = TRUE
    /\ dirs = {"config1"}
    /\ files = EmptyMap

FormatNext ==
    \/ CallLoadModel(1, ConcModels, ConcConfigs)
    \/ LoadFetch(1)
    \/ LoadPath(1)
    \/ LoadBuild(1)
    \/ LoadRead(1)
    \/ LoadApply(1)
    \/ ClearCache(1)
    \/ Return(1)
    \/ WriteFile(EnvPairs, FormatContents)

FormatSpec == FormatInit /\ [][FormatNext]_vars

\* the uploads the engine gets from the handler are byte buffers
HttpImages == {Image("bytes", TRUE, 3, 3, 2), Image("bytes", FALSE, 0, 0, 0)}

(***************************************************************************)
(* KeySpec: one caller runs load_model and predict with ids that are in    *)
(* the registries, ids that are not, and ids that hold the "_" the cache   *)
(* key is joined with.                                                     *)
(***************************************************************************)
KeyModels == {"densenet121", "efficientformerv2-s2", "densenet121_config1", ""}

KeyConfigs == {"config1", "config3", "config4", "config1_config1", "densenet121_config1"}

KeyNext ==
    \/ CallLoadModel(1, KeyModels, KeyConfigs)
    \/ CallPredict(1, KeyModels, KeyConfigs)
    \/ LoadFetch(1)
    \/ LoadPath(1)
    \/ LoadBuild(1)
    \/ LoadRead(1)
    \/ LoadApply(1)
    \/ PredPreprocess(1, HttpImages)
    \/ PredForward(1, {0})
    \/ PredResults(1, {num_classes})
    \/ ClearCache(1)
    \/ GetAvailableModels(1)
    \/ Return(1)

KeySpec == ValInit /\ [][KeyNext]_vars

(***************************************************************************)
(* HttpSpec: requests to /predict, one at a time (the handler runs the      *)
(* engine synchronously), while weight files come and go.                  *)
(***************************************************************************)
HttpInit == SeqInit

HttpNext ==
    \/ HttpPredict(1, SeqModels, SeqConfigs, BOOLEAN)
    \/ HttpCallEngine(1)
    \/ LoadFetch(1)
    \/ LoadPath(1)
    \/ LoadBuild(1)
    \/ LoadRead(1)
    \/ LoadApply(1)
    \/ PredPreprocess(1, HttpImages)
    \/ PredForward(1, 0..1)
    \/ PredResults(1, {num_classes})
    \/ HttpRespond(1)
    \/ Return(1)
    \/ WriteFile(EnvPairs, EnvContents)
    \/ RemoveFile(EnvPairs)

HttpSpec == HttpInit /\ [][HttpNext]_vars

(***************************************************************************)
(* Properties.                                                             *)
(***************************************************************************)
InLoadCall(t) == frame[t].op \in {"load_model", "predict"}

\* load_model has returned a model to caller t (frame[t].model)
LoadSucceeded(t) == InLoadCall(t) /\ frame[t].load_end >= 0

\* load_model has raised in caller t's call
LoadFailed(t) == InLoadCall(t) /\ frame[t].load_error # NoExc

SameInstance ==
    \A t \in Threads : LoadSucceeded(t) =>
        hist.returned[Key(frame[t])] = {frame[t].model.id}

HitTouchesNothing ==
    \A t \in Threads : (InLoadCall(t) /\ frame[t].cached_at_entry) =>
        /\ frame[t].exists_checks = 0
        /\ frame[t].reads = 0
        /\ frame[t].builds = 0
        /\ (LoadSucceeded(t) => frame[t].model.id = frame[t].entry_id)

\* C1 as stated: between two clear_cache calls every successful load_model of a
\* key returns the one instance the first successful load created, a cache hit
\* makes no existence check and no read, and the key's weight file is read at
\* most once.
C1_Claim ==
    /\ SameInstance
    /\ HitTouchesNothing
    /\ \A k \in DOMAIN hist.reads : hist.reads[k] <= 1

\* C1 as amended: between two clear_cache calls every successful load_model of a
\* key returns the one instance the first successful load created, a cache hit
\* makes no existence check and no read, and once a load of the key has
\* succeeded its weight file is not read again (loads that fail after the read
\* cache nothing, so the file may be read again before the first success).
C1_Amended ==
    /\ SameInstance
    /\ HitTouchesNothing
    /\ hist.late_reads = {}

\* a load answered from the cache after its weight file was removed
C1_Witness ==
    \E t \in Threads :
        /\ pc[t] = "done" /\ LoadSucceeded(t) /\ frame[t].cached_at_entry
        /\ PathOf(<<frame[t].model_name, frame[t].config>>) \notin DOMAIN files
        /\ hist.reads[Key(frame[t])] = 1

\* C2: whatever the interleaving of concurrent loads of one uncached key, in one
\* cache lifetime the model of the key is constructed at most once, its weight
\* file is read at most once and all callers receive the same instance.
C2_Claim ==
    /\ \A k \in DOMAIN hist.builds : hist.builds[k] <= 1
    /\ \A k \in DOMAIN hist.reads : hist.reads[k] <= 1
    /\ \A k \in DOMAIN hist.returned : Cardinality(hist.returned[k]) <= 1

Cleared ==
    \A t \in Threads : (pc[t] = "done" /\ frame[t].op = "clear_cache") =>
        DOMAIN loaded_models = {}

\* C3 as stated: after clear_cache the cache is empty; the first load_model
\* after it for a key cached before performs exactly one read and caches a newly
\* built instance, and the loads of that key that follow perform no read.
C3_Claim ==
    /\ Cleared
    /\ \A t \in Threads :
        (InLoadCall(t) /\ Key(frame[t]) \in hist.ever_cached
            /\ (LoadSucceeded(t) \/ LoadFailed(t))) =>
            IF frame[t].first_attempt
            THEN /\ LoadSucceeded(t)
                 /\ frame[t].reads = 1 /\ frame[t].builds = 1
                 /\ frame[t].model.id > frame[t].entry_builds
            ELSE frame[t].reads = 0

\* C3 as amended: after clear_cache the cache is empty; the first load_model
\* after it for a key cached before misses the cache; a load of such a key that
\* misses and succeeds performs exactly one read and caches a newly built
\* instance, a load that finds the key cached performs no read and returns the
\* cached instance, and a load that fails (the weight file was removed or can
\* no longer be loaded) reads the file at most once and caches nothing.
C3_Amended ==
    /\ Cleared
    /\ \A t \in Threads :
        (InLoadCall(t) /\ Key(frame[t]) \in hist.ever_cached) =>
            /\ frame[t].first_attempt => ~frame[t].cached_at_entry
            /\ (LoadSucceeded(t) /\ ~frame[t].cached_at_entry) =>
                    /\ frame[t].reads = 1 /\ frame[t].builds = 1
                    /\ frame[t].model.id > frame[t].entry_builds
                    /\ Key(frame[t]) \in DOMAIN loaded_models
                    /\ loaded_models[Key(frame[t])] = frame[t].model
            /\ (LoadSucceeded(t) /\ frame[t].cached_at_entry) =>
                    /\ frame[t].reads = 0
                    /\ frame[t].model.id = frame[t].entry_id
            /\ LoadFailed(t) =>
                    /\ frame[t].reads <= 1
                    /\ Key(frame[t]) \notin DOMAIN loaded_models

\* the first load after a clear of a key cached before: one read, a new instance
C3_Witness ==
    \E t \in Threads :
        /\ pc[t] = "done" /\ frame[t].op = "load_model" /\ LoadSucceeded(t)
        /\ Key(frame[t]) \in hist.ever_cached /\ frame[t].first_attempt
        /\ frame[t].reads = 1
        /\ loaded_models[Key(frame[t])].id = outcome[t].model.id
        /\ outcome[t].model.id > 1

PredictDone(t) == pc[t] = "done" /\ frame[t].op = "predict"

IsFailure(t) ==
    /\ outcome[t].kind = "return"
    /\ ~outcome[t].result.success
    /\ outcome[t].result.error # NoMsg
    /\ outcome[t].result.results = <<>>
    /\ outcome[t].result.model_name = frame[t].model_name
    /\ outcome[t].result.config = frame[t].config
    /\ outcome[t].result.device = device
    /\ outcome[t].result.image_size =
            IF frame[t].config \in DOMAIN CONFIG_SETTINGS
            THEN CONFIG_SETTINGS[frame[t].config].image_size ELSE 0

\* C4: predict never raises: whichever stage fails, it returns a Failure with
\* success false, an error message, empty results and the context fields.
C4_Claim ==
    \A t \in Threads : PredictDone(t) =>
        /\ outcome[t].kind = "return"
        /\ outcome[t].result.success \/ IsFailure(t)

\* C5: when predict fails at the model-load stage it returns a Failure with
\* processing_time 0.0, empty results and the load error's text; for an absent
\* weight file the text names models_dir/config/filename.
C5_Claim ==
    \A t \in Threads : (PredictDone(t) /\ LoadFailed(t)) =>
        /\ IsFailure(t)
        /\ outcome[t].result.processing_time = 0
        /\ outcome[t].result.error = Str(frame[t].load_error)
        /\ frame[t].load_error.text = "Model file not found" =>
                outcome[t].result.error.arg =
                    models_dir \o "/" \o frame[t].config \o "/" \o frame[t].model_name \o ".pth"

KnownIncompatible(m, c) ==
    /\ m \in Range(ModelOrder)
    /\ c \in Range(ConfigOrder)
    /\ c \notin Range(MODEL_CONFIG_COMPATIBILITY[m])

\* C6: load_model of a known model id and a known config id that are not a
\* compatible pair raises the incompatibility error listing that model's
\* compatible configs, and the call checks no file, reads no file and builds no
\* model, whatever the cache holds.
C6_IncompatibleRejected ==
    \A t \in Threads :
        (pc[t] = "done" /\ frame[t].op = "load_model"
            /\ KnownIncompatible(frame[t].model_name, frame[t].config)) =>
            /\ outcome[t].kind = "raise"
            /\ outcome[t].exc.type = "ValueError"
            /\ outcome[t].exc.text = "not compatible"
            /\ outcome[t].exc.list = MODEL_CONFIG_COMPATIBILITY[frame[t].model_name]
            /\ frame[t].model_name = "densenet121" =>
                    outcome[t].exc.list = <<"config1", "config2", "config4">>
            /\ frame[t].exists_checks = 0
            /\ frame[t].reads = 0
            /\ frame[t].builds = 0

\* densenet121 with config3 rejected while its weight file is in place and the
\* cache holds a model
C6_Witness ==
    \E t \in Threads :
        /\ pc[t] = "done" /\ frame[t].op = "load_model"
        /\ frame[t].model_name = "densenet121" /\ frame[t].config = "config3"
        /\ outcome[t].kind = "raise"
        /\ PathOf(<<"densenet121", "config3">>) \in DOMAIN files
        /\ DOMAIN loaded_models # {}

\* C7: check_compatibility returns true exactly when the model is a key of the
\* compatibility mapping and the config is in that model's list, false for every
\* config when the model is not a key, and it returns (never raises) for every
\* pair of strings.
C7_Compatibility ==
    cc_out # NoAnswer =>
        /\ cc_out.kind = "return"
        /\ cc_out.value =
            (/\ cc_in[1] \in DOMAIN MODEL_CONFIG_COMPATIBILITY
             /\ \E i \in DOMAIN MODEL_CONFIG_COMPATIBILITY[cc_in[1]] :
                    MODEL_CONFIG_COMPATIBILITY[cc_in[1]][i] = cc_in[2])
        /\ cc_in[1] \notin DOMAIN MODEL_CONFIG_COMPATIBILITY => ~cc_out.value

C7_Witness ==
    /\ cc_in = <<"regnety-800mf", "config3">>
    /\ cc_out = [kind |-> "return", value |-> FALSE]

\* v is an integer nearest to n / d
Nearest(v, n, d) == 2 * (v * d - n) <= d /\ 2 * (n - v * d) <= d

\* C8: for h, w, s >= 1 letterbox gives an s x s image: the larger dimension is
\* resized to exactly s, the other to max(1, round(dim * s / max(h, w))), no
\* padding is negative, and each axis's padding is split floor(pad / 2) before
\* and the rest after (512 wide x 384 high at 224: 224 x 168, 28 rows above and
\* 28 below).
C8_Letterbox ==
    lb_out # NoGeometry =>
        LET h == lb_in[1]
            w == lb_in[2]
            size == lb_in[3]
            m == IF h >= w THEN h ELSE w
        IN  /\ lb_out.out_h = size /\ lb_out.out_w = size
            /\ h >= w => lb_out.new_h = size
            /\ w >= h => lb_out.new_w = size
            /\ \E r \in 0..size : Nearest(r, h * size, m) /\ lb_out.new_h = Max(1, r)
            /\ \E r \in 0..size : Nearest(r, w * size, m) /\ lb_out.new_w = Max(1, r)
            /\ size - lb_out.new_h >= 0 /\ size - lb_out.new_w >= 0
            /\ 2 * lb_out.top <= size - lb_out.new_h
            /\ size - lb_out.new_h <= 2 * lb_out.top + 1
            /\ lb_out.bottom = size - lb_out.new_h - lb_out.top
            /\ 2 * lb_out.left <= size - lb_out.new_w
            /\ size - lb_out.new_w <= 2 * lb_out.left + 1
            /\ lb_out.right = size - lb_out.new_w - lb_out.left
            /\ lb_in = <<384, 512, 224>> =>
                    /\ lb_out.new_w = 224 /\ lb_out.new_h = 168
                    /\ lb_out.top = 28 /\ lb_out.bottom = 28

\* an odd padding: the extra row goes below
C8_Witness ==
    /\ lb_out # NoGeometry
    /\ lb_out.bottom = lb_out.top + 1
    /\ lb_out.new_h > 1

PredictSucceeded(t) ==
    PredictDone(t) /\ outcome[t].kind = "return" /\ outcome[t].result.success

Paired(t, n) ==
    \A i \in 1..n :
        /\ outcome[t].result.results[i].disease = frame[t].diseases[i]
        /\ outcome[t].result.results[i].prob = Sigmoid(frame[t].logits[i])

\* C9 as stated: a Success outcome has as many results as the caller supplied
\* labels, the i-th pairing the i-th label with the i-th output's probability.
C9_Claim ==
    \A t \in Threads : PredictSucceeded(t) =>
        /\ Len(outcome[t].result.results) = Len(frame[t].diseases)
        /\ Paired(t, Len(outcome[t].result.results))

\* C9 as amended: a Success outcome has as many results as the caller supplied
\* labels or as the model has outputs (num_classes), whichever is fewer - so as
\* many as labels when these are at most num_classes - the i-th pairing the i-th
\* label with the i-th output's probability.
C9_Amended ==
    \A t \in Threads : PredictSucceeded(t) =>
        /\ Len(outcome[t].result.results) =
                IF Len(frame[t].diseases) <= num_classes
                THEN Len(frame[t].diseases) ELSE num_classes
        /\ Paired(t, Len(outcome[t].result.results))

C9_Witness ==
    \E t \in Threads :
        /\ PredictSucceeded(t)
        /\ frame[t].diseases = DISEASES
        /\ Len(outcome[t].result.results) = 6
        /\ outcome[t].result.results[2].disease = "Edema"

\* C10: get_available_models has an entry for a config exactly when the config's
\* directory exists; the entry lists exactly the registry models whose weight
\* file is in the directory, each with compatible as the compatibility mapping
\* has it; the call changes neither the cache nor the filesystem.
C10_Listing ==
    \A t \in Threads : (pc[t] = "done" /\ frame[t].op = "get_available_models") =>
        LET listing == outcome[t].listing
        IN  /\ outcome[t].kind = "return"
            /\ DOMAIN listing = {c \in Range(ConfigOrder) : c \in dirs}
            /\ \A c \in DOMAIN listing :
                /\ {listing[c].models[i].name : i \in DOMAIN listing[c].models}
                        = {m \in Range(ModelOrder) : PathOf(<<m, c>>) \in DOMAIN files}
                /\ \A i, j \in DOMAIN listing[c].models :
                        listing[c].models[i].name = listing[c].models[j].name => i = j
                /\ \A i \in DOMAIN listing[c].models :
                        listing[c].models[i].compatible =
                            (c \in Range(MODEL_CONFIG_COMPATIBILITY[listing[c].models[i].name]))
            /\ frame[t].before = <<loaded_models, dirs, files>>

\* a directory without weight files, a missing directory, and a weight file of
\* an incompatible model
C10_Witness ==
    \E t \in Threads :
        /\ pc[t] = "done" /\ frame[t].op = "get_available_models"
        /\ "config2" \in DOMAIN outcome[t].listing
        /\ outcome[t].listing["config2"].models = <<>>
        /\ "config1" \notin DOMAIN outcome[t].listing
        /\ "config3" \in DOMAIN outcome[t].listing
        /\ \E i \in DOMAIN outcome[t].listing["config3"].models :
                /\ outcome[t].listing["config3"].models[i].name = "densenet121"
                /\ ~outcome[t].listing["config3"].models[i].compatible
        /\ DOMAIN loaded_models # {}

Responded(t) ==
    pc[t] = "done" /\ frame[t].op = "http_predict" /\ outcome[t].http # NoResponse

\* C11: at /predict an unknown model or config or an incompatible pair gets a
\* client-error response; every Failure that engine.predict returns gets a
\* server-error response echoing the Failure's error message; a success-status
\* response is given only for a Success outcome.
C11_Claim ==
    \A t \in Threads : Responded(t) =>
        LET status == outcome[t].http.status
            m == frame[t].model_name
            c == frame[t].config
        IN  /\ (m \notin Range(ModelOrder) \/ c \notin Range(ConfigOrder)
                    \/ ~check_compatibility(m, c)) => status \in 400..499
            /\ (outcome[t].kind = "return" /\ ~outcome[t].result.success) =>
                    /\ status \in 500..599
                    /\ outcome[t].http.body.error = outcome[t].result.error
            /\ status \in 200..299 =>
                    outcome[t].kind = "return" /\ outcome[t].result.success

\* C12: the timer of predict starts only after load_model has returned: the
\* processing_time of a preprocessing Failure, an inference Failure or a Success
\* is the time elapsed since the end of the load stage, so it holds no time
\* spent loading the model.
C12_Claim ==
    \A t \in Threads :
        (PredictDone(t) /\ LoadSucceeded(t) /\ outcome[t].kind = "return") =>
            outcome[t].result.processing_time = frame[t].clock - frame[t].load_end

UnknownIds(f) ==
    f.config \notin Range(ConfigOrder) \/ f.model_name \notin Range(ModelOrder)

\* C13: load_model and get_model_path called with a config id outside the
\* config registry or a model id outside the model registry raise a
\* configuration error, about the config when the config is unknown and else
\* about the model, whatever the cache and the filesystem hold; the call never
\* reports an incompatibility or a missing file, checks and reads no file and
\* builds no model.
C13_UnknownIds ==
    \A t \in Threads :
        (pc[t] = "done" /\ frame[t].op \in {"load_model", "get_model_path"}
            /\ UnknownIds(frame[t])) =>
            /\ outcome[t].kind = "raise"
            /\ outcome[t].exc.type = "ValueError"
            /\ outcome[t].exc.text =
                    IF frame[t].config \notin Range(ConfigOrder)
                    THEN (IF frame[t].op = "load_model"
                          THEN "Invalid config" ELSE "Config not recognized")
                    ELSE (IF frame[t].op = "load_model"
                          THEN "Invalid model" ELSE "Model not recognized")
            /\ outcome[t].exc.arg =
                    IF frame[t].config \notin Range(ConfigOrder)
                    THEN frame[t].config ELSE frame[t].model_name
            /\ frame[t].exists_checks = 0
            /\ frame[t].op = "load_model" =>
                    frame[t].reads = 0 /\ frame[t].builds = 0

\* load_model with both ids unknown answers about the config, with a model
\* cached and weight files in place
C13_Witness ==
    \E t \in Threads :
        /\ pc[t] = "done" /\ frame[t].op = "load_model"
        /\ frame[t].config \notin Range(ConfigOrder)
        /\ frame[t].model_name \notin Range(ModelOrder)
        /\ outcome[t].exc.text = "Invalid config"
        /\ DOMAIN loaded_models # {}
        /\ DOMAIN files # {}

\* predict of caller t holds the model load_model gave it
HoldsModel(t) == frame[t].op = "predict" /\ LoadSucceeded(t)

ClearStep(t) ==
    pc[t] = "idle" /\ pc'[t] = "done" /\ frame'[t].op = "clear_cache"

\* C14: when clear_cache runs while a predict that has its model from
\* load_model is in flight, the clear empties the cache and touches nothing the
\* predict holds: the model it holds stays the loaded model (parameters
\* applied, on the device, in inference mode), the predict returns (a Success
\* built from its own logits and labels, or a Failure) whether or not the key
\* is still cached, and a load that then misses builds and reads anew.
C14_ClearInFlight ==
    /\ [](\A t \in Threads : HoldsModel(t) =>
            /\ frame[t].model.id >= 1
            /\ frame[t].model.arch = frame[t].model_name
            /\ frame[t].model.params.arch = frame[t].model.arch
            /\ frame[t].model.params.src # "init"
            /\ frame[t].model.device = device
            /\ ~frame[t].model.training
            /\ pc[t] = "done" =>
                    /\ outcome[t].kind = "return"
                    /\ outcome[t].result.success =>
                            /\ Len(outcome[t].result.results) = num_classes
                            /\ Paired(t, num_classes)
            /\ ~frame[t].cached_at_entry =>
                    frame[t].builds = 1 /\ frame[t].reads = 1)
    /\ [][\A t \in Threads : ClearStep(t) =>
            /\ DOMAIN loaded_models' = {}
            /\ \A u \in Threads \ {t} :
                    /\ pc'[u] = pc[u]
                    /\ outcome'[u] = outcome[u]
                    /\ frame'[u] = frame[u]]_vars

\* a predict that got its model before the latest clear has returned a Success
\* while the cache is empty
C14_Witness ==
    /\ pc[1] = "done" /\ frame[1].op = "clear_cache"
    /\ DOMAIN loaded_models = {}
    /\ \E t \in Threads :
        /\ HoldsModel(t) /\ pc[t] = "done"
        /\ outcome[t].kind = "return" /\ outcome[t].result.success

\* the field of the blob the code is to take the parameters from
FieldOf(fmt) ==
    IF fmt \in {"model_state_dict", "both"} THEN "model_state_dict"
    ELSE IF fmt = "state_dict" THEN "state_dict"
    ELSE "checkpoint"

\* C15: load_model applies the blob's "model_state_dict" field when the blob is
\* a mapping that has it (also when "state_dict" is there too), else its
\* "state_dict" field when it has one, else the blob itself; it applies
\* parameters exactly once per load, and a model is in the cache only with its
\* parameters applied, on the engine's device and in inference mode.
C15_Formats ==
    /\ \A t \in Threads :
        (frame[t].op = "load_model" /\ LoadSucceeded(t) /\ ~frame[t].cached_at_entry) =>
            /\ frame[t].model.params.src = FieldOf(frame[t].checkpoint.fmt)
            /\ frame[t].model.params.arch = frame[t].checkpoint.arch
            /\ frame[t].applies = 1
    /\ \A t \in Threads :
        (frame[t].op = "load_model" /\ frame[t].cached_at_entry) => frame[t].applies = 0
    /\ \A k \in DOMAIN loaded_models :
            /\ loaded_models[k].params.src # "init"
            /\ loaded_models[k].params.arch = loaded_models[k].arch
            /\ loaded_models[k].device = device
            /\ ~loaded_models[k].training

\* a blob with both fields: "model_state_dict" was applied
C15_Witness ==
    \E t \in Threads :
        /\ pc[t] = "done" /\ frame[t].op = "load_model" /\ LoadSucceeded(t)
        /\ ~frame[t].cached_at_entry
        /\ frame[t].checkpoint.fmt = "both"
        /\ outcome[t].model.params.src = "model_state_dict"
        /\ loaded_models[Key(frame[t])] = outcome[t].model

\* the pairs of ids a caller may pass whose cache key is k
Owners(k) ==
    {pair \in KeyModels \X KeyConfigs : cache_key(pair[1], pair[2]) = k}

ValidPair(m, c) ==
    /\ m \in Range(ModelOrder)
    /\ c \in Range(ConfigOrder)
    /\ c \in Range(MODEL_CONFIG_COMPATIBILITY[m])

\* C16: every key of the cache is the key of exactly one (model, config) pair,
\* a pair of a registry model and a registry config that are compatible, and
\* holds a model of that architecture; so the cache test load_model makes before
\* it validates never answers for an unknown or incompatible pair, and no two
\* pairs share an entry.
C16_KeysValid ==
    /\ \A k \in DOMAIN loaded_models :
            /\ Cardinality(Owners(k)) = 1
            /\ \A pair \in Owners(k) :
                    /\ ValidPair(pair[1], pair[2])
                    /\ loaded_models[k].arch = pair[1]
    /\ \A t \in Threads : InLoadCall(t) =>
            /\ frame[t].cached_at_entry => ValidPair(frame[t].model_name, frame[t].config)
            /\ LoadSucceeded(t) =>
                    /\ ValidPair(frame[t].model_name, frame[t].config)
                    /\ frame[t].model.arch = frame[t].model_name

\* with densenet121_config1 cached, a load of model "" with config
\* "densenet121_config1" misses the cache and is rejected
C16_Witness ==
    \E t \in Threads :
        /\ pc[t] = "done" /\ InLoadCall(t)
        /\ frame[t].model_name = "" /\ frame[t].config = "densenet121_config1"
        /\ ~frame[t].cached_at_entry
        /\ LoadFailed(t)
        /\ "densenet121_config1" \in DOMAIN loaded_models
        /\ Cardinality(DOMAIN loaded_models) = 2

\* a model as load_model leaves it before the insert
Initialised(model) ==
    /\ model.params.src # "init"
    /\ model.params.arch = model.arch
    /\ ~model.training

\* C17: a load_model call that fails, at whatever step, leaves the cache as it
\* was: the only steps that change the cache are clear_cache and the insert of
\* a load that succeeds, which adds the initialised model under the call's key;
\* so after a failed load the key is not cached and no cached model is partly
\* initialised.
C17_FailedLoadKeepsCache ==
    /\ [][loaded_models' # loaded_models =>
            \E t \in Threads :
                \/ ClearStep(t)
                \/ /\ InLoadCall(t)
                   /\ frame[t].load_end < 0
                   /\ frame'[t].load_end >= 0
                   /\ frame'[t].load_error = NoExc
                   /\ Initialised(frame'[t].model)
                   /\ loaded_models' = Put(loaded_models, Key(frame[t]), frame'[t].model)]_vars
    /\ [](\A t \in Threads : LoadFailed(t) =>
            /\ frame[t].load_end < 0
            /\ Key(frame[t]) \notin DOMAIN loaded_models)
    /\ [](\A k \in DOMAIN loaded_models : Initialised(loaded_models[k]))

\* a load whose parameters did not fit failed, and the model cached before it is
\* still the only entry
C17_Witness ==
    \E t \in Threads :
        /\ pc[t] = "done" /\ frame[t].op = "load_model" /\ LoadFailed(t)
        /\ frame[t].load_error.text = "Error(s) in loading state_dict"
        /\ frame[t].applies = 1
        /\ DOMAIN loaded_models = {"mobilevit-s_config3"}

====
